---------------------------- MODULE Spec2Model ----------------------------
(***************************************************************************)
(* Model of mail_service/email_client.py: the module body (logger set-up   *)
(* and the __main__ guard) and send_confirmation_email, executed by a      *)
(* single synchronous caller.  The gRPC transport, the generated request   *)
(* envelope and the remote email service are the environment.              *)
(***************************************************************************)
EXTENDS Integers, Sequences, FiniteSets, TLC

(* Number of calls of send_confirmation_email the importing caller makes. *)
MaxInvocations == 2

(* ---------------------------- input values ----------------------------- *)

(* Python values handed in as `email`: two strings and one non-string.     *)
Emails ==
  { [type |-> "str", v |-> "a@b.com"],
    [type |-> "str", v |-> "c@d.org"],
    [type |-> "int", v |-> "42"] }

(* Python values handed in as `order`: two order messages and a string.    *)
Orders ==
  { [type |-> "OrderResult", v |-> "123"],
    [type |-> "OrderResult", v |-> "456"],
    [type |-> "str", v |-> "123"] }

(* grpc.StatusCode members: NAME -> value.  The value of a member is the   *)
(* pair (number, description), read at line 20 through err.code().value.   *)
StatusCode ==
  [ UNAVAILABLE      |-> [num |-> 14, desc |-> "unavailable"],
    INVALID_ARGUMENT |-> [num |-> 3,  desc |-> "invalid argument"],
    DEADLINE_EXCEEDED |-> [num |-> 4, desc |-> "deadline exceeded"] ]

(* The grpc.RpcError outcomes the remote call can resolve to: details()    *)
(* and code().name.                                                         *)
Failures ==
  { [details |-> "unavailable", code |-> "UNAVAILABLE"],
    [details |-> "bad address", code |-> "INVALID_ARGUMENT"] }

NoError == [details |-> "", code |-> ""]

(* ------------------------------- state --------------------------------- *)

VARIABLES
  runMode,    \* "main": run as a script; "imported": loaded by a caller
  loaded,     \* the module body (lines 1-23) has been executed
  invs,       \* the invocations of send_confirmation_email, oldest first
  channels,   \* channels created by grpc.insecure_channel, in creation order
  calls,      \* SendOrderConfirmation calls handed to the transport
  log         \* records emitted through the logger, in emission order

vars == <<runMode, loaded, invs, channels, calls, log>>

(* ------------------------- pure helper operators ----------------------- *)

(* str() of a grpc.StatusCode member's value, a (number, description) tuple *)
PyStrOfValue(name) ==
  "(" \o ToString(StatusCode[name].num) \o ", '" \o StatusCode[name].desc \o "')"

(* '{}, {}'.format(err.code().name, err.code().value)               line 20 *)
FormatCode(name) == name \o ", " \o PyStrOfValue(name)

(* The generated request envelope takes a string for `email` and an order  *)
(* message for `order`; anything else makes its constructor raise.         *)
EnvelopeAccepts(email, order) ==
  email.type = "str" /\ order.type = "OrderResult"

(* Variant: the envelope is built with the default (empty) email.          *)
BuildRequestDefaultEmail(email, order) == <<[type |-> "str", v |-> ""], order>>

(* demo_pb2.SendOrderConfirmationRequest(email = email, order = order)     *)
BuildRequest(email, order) == <<email, order>>

(* Program positions inside the try block of lines 12-17.                  *)
InTry(pc) == pc \in {"l13", "wait", "l17"}

(* Variants of the except clause: one that matches no exception the call   *)
(* raises, and one that matches every exception.                           *)
CatchesNothing(kind) == FALSE

CatchesAnyException(kind) == TRUE

(* The single except clause, line 18: `except grpc.RpcError`.              *)
Catches(kind) == kind = "RpcError"

(* Raising an exception of kind `kind` in invocation record r: control     *)
(* goes to the handler at line 19 when the try block covers the position   *)
(* and the clause matches; otherwise the exception leaves the function.    *)
Raise(r, kind) ==
  IF InTry(r.pc) /\ Catches(kind)
    THEN [r EXCEPT !.pc = "l19"]
    ELSE [r EXCEPT !.pc = "raised", !.exc = kind]

(* logger.<level>(msg), attributed to invocation i (0: the module body).   *)
Emit(i, level, msg) == Append(log, [inv |-> i, level |-> level, msg |-> msg])

cur == Len(invs)

Active == cur > 0 /\ invs[cur].pc \notin {"returned", "raised"}

(* ------------------------------ actions -------------------------------- *)

Init ==
  /\ runMode \in {"main", "imported"}
  /\ loaded = FALSE
  /\ invs = <<>>
  /\ channels = <<>>
  /\ calls = <<>>
  /\ log = <<>>

(* Variant: the start-up record is emitted without the __main__ guard.     *)
LoadModuleUnguarded ==
  /\ ~loaded
  /\ loaded' = TRUE
  /\ log' = Emit(0, "info", "Client for email service.")
  /\ UNCHANGED <<runMode, invs, channels, calls>>

(* Lines 1-23: imports, logger creation, definition of the function, and   *)
(* the start-up record when the module is the entry point.                 *)
LoadModule ==
  /\ ~loaded
  /\ loaded' = TRUE
  /\ log' = IF runMode = "main"
              THEN Emit(0, "info", "Client for email service.")
              ELSE log
  /\ UNCHANGED <<runMode, invs, channels, calls>>

(* A caller that imported the module calls the function (line 9).  The     *)
(* script itself ends after line 23 and never calls it.                    *)
Invoke(email, order) ==
  /\ loaded /\ runMode = "imported"
  /\ ~Active
  /\ Len(invs) < MaxInvocations
  /\ invs' = Append(invs,
       [email |-> email, order |-> order, pc |-> "l10", channel |-> 0,
        stub |-> 0, request |-> <<>>, rpc |-> "none", err |-> NoError,
        exc |-> "", ret |-> ""])
  /\ UNCHANGED <<runMode, loaded, channels, calls, log>>

(* Variant: one channel is created by the first invocation and reused.    *)
OpenChannelShared ==
  /\ Active /\ invs[cur].pc = "l10"
  /\ channels' = IF channels = <<>>
                   THEN <<[id |-> 1, target |-> "[::]:8080", openedBy |-> cur,
                           closed |-> FALSE]>>
                   ELSE channels
  /\ invs' = [invs EXCEPT ![cur].channel = 1, ![cur].pc = "l11"]
  /\ UNCHANGED <<runMode, loaded, calls, log>>

(* Line 10: channel = grpc.insecure_channel('[::]:8080')                   *)
OpenChannel ==
  /\ Active /\ invs[cur].pc = "l10"
  /\ channels' = Append(channels,
       [id |-> Len(channels) + 1, target |-> "[::]:8080", openedBy |-> cur,
        closed |-> FALSE])
  /\ invs' = [invs EXCEPT ![cur].channel = Len(channels) + 1, ![cur].pc = "l11"]
  /\ UNCHANGED <<runMode, loaded, calls, log>>

(* Line 11: stub = demo_pb2_grpc.EmailServiceStub(channel)                 *)
CreateStub ==
  /\ Active /\ invs[cur].pc = "l11"
  /\ invs' = [invs EXCEPT ![cur].stub = invs[cur].channel, ![cur].pc = "l13"]
  /\ UNCHANGED <<runMode, loaded, channels, calls, log>>

(* Lines 13-16: build the request and hand it to the stub; the call then   *)
(* blocks.  A rejected argument raises out of the envelope's constructor.  *)
SendRequest ==
  /\ Active /\ invs[cur].pc = "l13"
  /\ LET r == invs[cur] IN
       IF EnvelopeAccepts(r.email, r.order)
         THEN /\ invs' = [invs EXCEPT ![cur].request = BuildRequest(r.email, r.order),
                                      ![cur].rpc = "pending",
                                      ![cur].pc = "wait"]
              /\ calls' = Append(calls,
                   [inv |-> cur, channel |-> r.stub,
                    method |-> "SendOrderConfirmation",
                    request |-> BuildRequest(r.email, r.order)])
         ELSE /\ invs' = [invs EXCEPT ![cur] = Raise(r, "TypeError")]
              /\ calls' = calls
  /\ UNCHANGED <<runMode, loaded, channels, log>>

(* The remote service acknowledges the pending call.                       *)
RemoteOk ==
  /\ Active /\ invs[cur].pc = "wait" /\ invs[cur].rpc = "pending"
  /\ invs' = [invs EXCEPT ![cur].rpc = "ok"]
  /\ UNCHANGED <<runMode, loaded, channels, calls, log>>

(* The pending call fails: transport or remote service report an error.    *)
RemoteFail(f) ==
  /\ Active /\ invs[cur].pc = "wait" /\ invs[cur].rpc = "pending"
  /\ invs' = [invs EXCEPT ![cur].rpc = "error", ![cur].err = f]
  /\ UNCHANGED <<runMode, loaded, channels, calls, log>>

(* The blocking call of line 13 ends once the call is resolved (no timeout *)
(* is passed): it returns the response or raises grpc.RpcError.            *)
CallResolved(r) == r.rpc \in {"ok", "error"}

(* Variant: the call carries a deadline and gives up while unresolved.     *)
AwaitResponseWithDeadline ==
  /\ Active /\ invs[cur].pc = "wait"
  /\ invs' = [invs EXCEPT ![cur] =
       IF invs[cur].rpc = "ok" THEN [@ EXCEPT !.pc = "l17"]
       ELSE IF invs[cur].rpc = "error" THEN Raise(@, "RpcError")
       ELSE Raise([@ EXCEPT !.err = [details |-> "Deadline Exceeded",
                                     code |-> "DEADLINE_EXCEEDED"]], "RpcError")]
  /\ UNCHANGED <<runMode, loaded, channels, calls, log>>

AwaitResponse ==
  /\ Active /\ invs[cur].pc = "wait"
  /\ CallResolved(invs[cur])
  /\ invs' = [invs EXCEPT ![cur] =
       IF invs[cur].rpc = "ok" THEN [@ EXCEPT !.pc = "l17"]
                               ELSE Raise(@, "RpcError")]
  /\ UNCHANGED <<runMode, loaded, channels, calls, log>>

(* Line 17: logger.info('Request sent.')                                   *)
LogSent ==
  /\ Active /\ invs[cur].pc = "l17"
  /\ log' = Emit(cur, "info", "Request sent.")
  /\ invs' = [invs EXCEPT ![cur].pc = "end"]
  /\ UNCHANGED <<runMode, loaded, channels, calls>>

(* Variant: the handler does not log the detail message.                   *)
LogDetailsSkipped ==
  /\ Active /\ invs[cur].pc = "l19"
  /\ invs' = [invs EXCEPT ![cur].pc = "l20"]
  /\ UNCHANGED <<runMode, loaded, channels, calls, log>>

(* Line 19: logger.error(err.details())                                    *)
LogDetails ==
  /\ Active /\ invs[cur].pc = "l19"
  /\ log' = Emit(cur, "error", invs[cur].err.details)
  /\ invs' = [invs EXCEPT ![cur].pc = "l20"]
  /\ UNCHANGED <<runMode, loaded, channels, calls>>

(* Variant: 'Request sent.' is logged after the try statement, so the     *)
(* handler falls through to it.                                            *)
LogCodeFallsToSent ==
  /\ Active /\ invs[cur].pc = "l20"
  /\ log' = Emit(cur, "error", FormatCode(invs[cur].err.code))
  /\ invs' = [invs EXCEPT ![cur].pc = "l17"]
  /\ UNCHANGED <<runMode, loaded, channels, calls>>

(* Line 20: logger.error('{}, {}'.format(err.code().name, err.code().value)) *)
LogCode ==
  /\ Active /\ invs[cur].pc = "l20"
  /\ log' = Emit(cur, "error", FormatCode(invs[cur].err.code))
  /\ invs' = [invs EXCEPT ![cur].pc = "end"]
  /\ UNCHANGED <<runMode, loaded, channels, calls>>

(* Variant: the channel is closed when the function is left.              *)
ReturnClosingChannel ==
  /\ Active /\ invs[cur].pc = "end"
  /\ invs' = [invs EXCEPT ![cur].pc = "returned", ![cur].ret = "None"]
  /\ channels' = [channels EXCEPT ![invs[cur].channel].closed = TRUE]
  /\ UNCHANGED <<runMode, loaded, calls, log>>

(* End of the function body: the implicit `return None`.  The channel is   *)
(* left as it is.                                                          *)
Return ==
  /\ Active /\ invs[cur].pc = "end"
  /\ invs' = [invs EXCEPT ![cur].pc = "returned", ![cur].ret = "None"]
  /\ UNCHANGED <<runMode, loaded, channels, calls, log>>

(* The steps the Python interpreter takes on its own.                      *)
ProgramStep ==
  \/ LoadModule
  \/ OpenChannel
  \/ CreateStub
  \/ SendRequest
  \/ AwaitResponse
  \/ LogSent
  \/ LogDetails
  \/ LogCode
  \/ Return

Next ==
  \/ ProgramStep
  \/ \E email \in Emails, order \in Orders : Invoke(email, order)
  \/ RemoteOk
  \/ \E f \in Failures : RemoteFail(f)

Spec == Init /\ [][Next]_vars

(* The interpreter keeps running the function; nothing obliges the caller  *)
(* to call or the remote service to answer.                                *)
FairSpec == Spec /\ WF_vars(ProgramStep)

(* --------------------------- observations ------------------------------ *)

Entry(level, msg) == [level |-> level, msg |-> msg]

(* The log records invocation i emitted, in order, as (level, message).    *)
Entries(i) ==
  LET own == SelectSeq(log, LAMBDA e : e.inv = i)
  IN  [k \in 1..Len(own) |-> Entry(own[k].level, own[k].msg)]

(* The remote calls invocation i issued, in order.                         *)
CallsOf(i) == SelectSeq(calls, LAMBDA c : c.inv = i)

(* The channels invocation i created.                                      *)
ChannelsOf(i) == SelectSeq(channels, LAMBDA c : c.openedBy = i)

OpenChannels == SelectSeq(channels, LAMBDA c : ~c.closed)

Invocations == 1..Len(invs)

(* Invocation i has executed lines 13-16 (or left the function there).     *)
PastCall(i) == invs[i].pc \notin {"l10", "l11", "l13"}

Finished(i) == invs[i].pc \in {"returned", "raised"}

(* ------------------------------- C1 ------------------------------------ *)

(* C1 as stated: for every (email, order) pair an invocation issues        *)
(* exactly one SendOrderConfirmation call whose request carries the two    *)
(* arguments unchanged.                                                    *)
C1_EveryPairOneCall ==
  \A i \in Invocations :
    /\ Len(CallsOf(i)) <= 1
    /\ Finished(i) =>
         /\ Len(CallsOf(i)) = 1
         /\ CallsOf(i)[1].request = <<invs[i].email, invs[i].order>>

(* C1 amended: for every valid pair (a string email and an order message,  *)
(* the pairs the request envelope accepts) an invocation issues exactly    *)
(* one SendOrderConfirmation call, never more, also when the call fails,   *)
(* and the request's email and order fields equal the arguments; for any   *)
(* other pair no call is issued.                                           *)
C1_ValidPairOneCall ==
  \A i \in Invocations :
    /\ Len(CallsOf(i)) <= 1
    /\ (PastCall(i) /\ EnvelopeAccepts(invs[i].email, invs[i].order)) =>
         /\ Len(CallsOf(i)) = 1
         /\ CallsOf(i)[1].method = "SendOrderConfirmation"
         /\ CallsOf(i)[1].request[1] = invs[i].email
         /\ CallsOf(i)[1].request[2] = invs[i].order
    /\ ~EnvelopeAccepts(invs[i].email, invs[i].order) => Len(CallsOf(i)) = 0

C1_Witness ==
  \E i \in Invocations :
    /\ invs[i].pc = "returned" /\ invs[i].rpc = "error"
    /\ Len(CallsOf(i)) = 1
    /\ CallsOf(i)[1].request = <<invs[i].email, invs[i].order>>

(* ------------------------------- C2 ------------------------------------ *)

(* C2: an invocation whose remote call succeeded produces exactly one      *)
(* informational entry 'Request sent.' and no error entry, and that entry  *)
(* exists only once the call has returned without error: never before the  *)
(* call resolves and never on a failed call.                               *)
C2_SuccessLogsOnce ==
  \A i \in Invocations :
    /\ (invs[i].rpc = "ok" /\ invs[i].pc = "returned") =>
         Entries(i) = <<Entry("info", "Request sent.")>>
    /\ invs[i].rpc = "ok" =>
         \A k \in 1..Len(Entries(i)) : Entries(i)[k].level # "error"
    /\ (\E k \in 1..Len(Entries(i)) : Entries(i)[k].level = "info") =>
         /\ invs[i].rpc = "ok"
         /\ invs[i].pc \in {"end", "returned"}

C2_Witness ==
  \E i \in Invocations :
    /\ invs[i].rpc = "ok" /\ invs[i].pc = "returned"
    /\ Len(Entries(i)) = 1

(* ------------------------------- C3 ------------------------------------ *)

(* C3: a call failing with detail D and code NAME/VALUE produces exactly   *)
(* two error entries, first D, then 'NAME, VALUE' with VALUE the numeric   *)
(* code (e.g. 'UNAVAILABLE, 14'), no informational entry, and returns      *)
(* normally.                                                               *)
C3_FailureLogsDetailThenNumericCode ==
  \A i \in Invocations :
    /\ invs[i].rpc = "error" => invs[i].pc # "raised"
    /\ (invs[i].rpc = "error" /\ invs[i].pc = "returned") =>
         Entries(i) =
           << Entry("error", invs[i].err.details),
              Entry("error", invs[i].err.code \o ", " \o
                               ToString(StatusCode[invs[i].err.code].num)) >>

(* ------------------------------- C4 ------------------------------------ *)

(* What the caller of invocation i sees of it: how it ended, the value it  *)
(* returned and the exception it raised.                                   *)
CallerView(i) == <<invs[i].pc, invs[i].ret, invs[i].exc>>

(* C4: a remote-call failure is never re-raised, retried or returned: an   *)
(* invocation whose call failed ends like one whose call succeeded, with   *)
(* the result None and no exception, after a single call, so invocations   *)
(* with equal inputs and different remote outcomes look the same to the    *)
(* caller.                                                                 *)
C4_FailureInvisibleToCaller ==
  /\ \A i \in Invocations :
       /\ CallResolved(invs[i]) =>
            /\ invs[i].pc # "raised" /\ invs[i].exc = ""
            /\ Len(CallsOf(i)) = 1
       /\ invs[i].pc = "returned" => invs[i].ret = "None"
       /\ (Finished(i) /\ CallResolved(invs[i])) =>
            CallerView(i) = <<"returned", "None", "">>
  /\ \A i, j \in Invocations :
       ( /\ Finished(i) /\ Finished(j)
         /\ invs[i].email = invs[j].email /\ invs[i].order = invs[j].order
         /\ CallResolved(invs[i]) /\ CallResolved(invs[j]) )
       => CallerView(i) = CallerView(j)

C4_Witness ==
  \E i, j \in Invocations :
    /\ invs[i].pc = "returned" /\ invs[j].pc = "returned"
    /\ invs[i].email = invs[j].email /\ invs[i].order = invs[j].order
    /\ invs[i].rpc = "ok" /\ invs[j].rpc = "error"
    /\ Entries(i) # Entries(j)

(* ------------------------------- C5 ------------------------------------ *)

(* What invocation i did: its request, its remote calls' requests, its log *)
(* entries and how far it got.                                             *)
Effects(i) ==
  << invs[i].request,
     [k \in 1..Len(CallsOf(i)) |-> CallsOf(i)[k].request],
     Entries(i), invs[i].ret, invs[i].exc >>

(* C5: invocations are independent: each one creates its own channel and   *)
(* stub, used by no other invocation, and what an invocation does depends  *)
(* only on its own inputs and its own remote outcome, whatever invocations *)
(* preceded it.                                                            *)
C5_InvocationsIndependent ==
  /\ \A i \in Invocations :
       /\ invs[i].pc # "l10" =>
            /\ Len(ChannelsOf(i)) = 1
            /\ ChannelsOf(i)[1].id = invs[i].channel
       /\ invs[i].stub \in {0, invs[i].channel}
       /\ \A k \in 1..Len(CallsOf(i)) : CallsOf(i)[k].channel = invs[i].channel
  /\ \A i, j \in Invocations :
       /\ (i # j /\ invs[i].channel # 0) => invs[i].channel # invs[j].channel
       /\ ( /\ invs[i].email = invs[j].email /\ invs[i].order = invs[j].order
            /\ invs[i].rpc = invs[j].rpc /\ invs[i].err = invs[j].err
            /\ invs[i].pc = invs[j].pc )
          => Effects(i) = Effects(j)

C5_Witness ==
  \E i, j \in Invocations :
    /\ i < j
    /\ invs[i].pc = "returned" /\ invs[j].pc = "returned"
    /\ invs[i].channel # invs[j].channel
    /\ invs[i].email = invs[j].email /\ invs[i].order = invs[j].order
    /\ invs[i].rpc = "error" /\ invs[j].rpc = "error"
    /\ invs[i].err = invs[j].err
    /\ Len(Entries(j)) = 2

(* ------------------------------- C6 ------------------------------------ *)

(* C6 as stated: every completed invocation has created exactly one        *)
(* channel, which nothing else uses, and has made two or three log         *)
(* emissions.                                                              *)
C6_TwoOrThreeEmissions ==
  \A i \in Invocations :
    invs[i].pc = "returned" =>
      /\ Len(ChannelsOf(i)) = 1
      /\ \A k \in 1..Len(calls) :
           calls[k].channel = invs[i].channel => calls[k].inv = i
      /\ Len(Entries(i)) \in {2, 3}

(* C6 amended: every invocation that returns has created exactly one       *)
(* channel, which no other invocation uses, and has made one log emission  *)
(* when its call succeeded and two when it failed.                         *)
C6_OneOrTwoEmissions ==
  \A i \in Invocations :
    invs[i].pc = "returned" =>
      /\ Len(ChannelsOf(i)) = 1
      /\ \A k \in 1..Len(calls) :
           calls[k].channel = invs[i].channel => calls[k].inv = i
      /\ invs[i].rpc = "ok" => Len(Entries(i)) = 1
      /\ invs[i].rpc = "error" => Len(Entries(i)) = 2
      /\ invs[i].rpc \in {"ok", "error"}

C6_Witness ==
  \E i, j \in Invocations :
    /\ invs[i].pc = "returned" /\ invs[i].rpc = "ok" /\ Len(Entries(i)) = 1
    /\ invs[j].pc = "returned" /\ invs[j].rpc = "error" /\ Len(Entries(j)) = 2
    /\ Len(channels) = 2

(* ------------------------------- C7 ------------------------------------ *)

(* C7: run as the entry point, the module emits exactly one informational  *)
(* start-up entry and does nothing else: no channel, no invocation of      *)
(* send_confirmation_email, no remote call; imported, it never emits that  *)
(* entry.                                                                  *)
C7_MainOnlyLogsStartup ==
  /\ (runMode = "main" /\ loaded) =>
       /\ log = <<[inv |-> 0, level |-> "info", msg |-> "Client for email service."]>>
       /\ channels = <<>> /\ invs = <<>> /\ calls = <<>>
  /\ (runMode = "main" /\ ~loaded) =>
       log = <<>> /\ channels = <<>> /\ invs = <<>> /\ calls = <<>>
  /\ runMode = "imported" =>
       \A k \in 1..Len(log) :
         log[k].inv # 0 /\ log[k].msg # "Client for email service."

C7_Witness ==
  /\ runMode = "main" /\ loaded
  /\ Len(log) = 1 /\ log[1].msg = "Client for email service."

(* ------------------------------- C8 ------------------------------------ *)

(* C8: no timeout bounds the call: an invocation returns only if its       *)
(* remote call resolved; while the call is unresolved the invocation stays *)
(* blocked in it and emits nothing; and once the remote service has        *)
(* answered, with success or with an error, the invocation eventually      *)
(* returns, its log entries emitted.                                       *)
C8_ReturnsIffCallResolves ==
  /\ [](\A i \in Invocations :
          /\ invs[i].pc = "returned" => CallResolved(invs[i])
          /\ invs[i].rpc = "pending" =>
               invs[i].pc = "wait" /\ Entries(i) = <<>>)
  /\ [][\A i \in Invocations :
          (invs[i].rpc = "pending" /\ invs'[i].rpc = "pending") =>
            (invs'[i] = invs[i] /\ log' = log)]_vars
  /\ \A i \in 1..MaxInvocations :
       (i <= Len(invs) /\ CallResolved(invs[i]))
         ~> (i <= Len(invs) /\ invs[i].pc = "returned" /\ Entries(i) # <<>>)

C8_Witness ==
  \E i, j \in Invocations :
    /\ invs[i].pc = "returned" /\ CallResolved(invs[i]) /\ Entries(i) # <<>>
    /\ invs[j].pc = "wait" /\ invs[j].rpc = "pending" /\ Entries(j) = <<>>

(* ------------------------------- C9 ------------------------------------ *)

ExceptionKinds == {"RpcError", "TypeError"}

C10_ChannelsNeverClosed ==
  /\ [](/\ \A k \in 1..Len(channels) : ~channels[k].closed
        /\ Len(OpenChannels) = Cardinality({i \in Invocations : invs[i].pc # "l10"})
        /\ ~Active => Len(OpenChannels) = Len(invs))
  /\ [][Len(OpenChannels)' >= Len(OpenChannels)]_vars

C10_Witness ==
  /\ Len(invs) = 2 /\ ~Active
  /\ invs[1].rpc = "ok" /\ invs[2].rpc = "error"
  /\ Len(OpenChannels) = 2

=============================================================================
